---- MODULE Spec2Model ----
(***************************************************************************)
(* Model of the gas-lib helper utilities: ArrayActions.swapUp / swapDown,   *)
(* createMD5HashKey, toZeroPadding / toWordPadding, Pipe and                *)
(* SpreadsheetLib.openSheet.  Text is modelled as a sequence of one-       *)
(* character strings so that repeat / slice / toString act on characters.  *)
(***************************************************************************)
EXTENDS Integers, Sequences, FiniteSets, TLC

VARIABLES
    array, initial, prev, lastOp, lastIdx, calls,      \* ArrayActions
    text, md5_byte, hash_key,                          \* createMD5HashKey
    padCall, padResult,                                \* toZeroPadding / toWordPadding
    v, v0, applied, before, pipeCall, ret, sink,       \* Pipe
    ss, ss0, outcome                                   \* SpreadsheetLib

swapVars  == <<array, initial, prev, lastOp, lastIdx, calls>>
hashVars  == <<text, md5_byte, hash_key>>
padVars   == <<padCall, padResult>>
pipeVars  == <<v, v0, applied, before, pipeCall, ret, sink>>
sheetVars == <<ss, ss0, outcome>>
vars      == <<swapVars, hashVars, padVars, pipeVars, sheetVars>>

Min(a, b) == IF a < b THEN a ELSE b
Max(a, b) == IF a > b THEN a ELSE b

(***************************************************************************)
(* JavaScript primitives used by the helpers                                *)
(***************************************************************************)

\* the JavaScript value `undefined`
Undefined == "undefined"
\* the JavaScript value `null`
Null == "null"

\* array[i] with a 0-based index: out of range reads give undefined
At(arr, i) == IF i >= 0 /\ i < Len(arr) THEN arr[i + 1] ELSE Undefined

\* Array.prototype.splice(start, deleteCount, ...items), 0-based start
Splice(arr, start, deleteCount, items) ==
    LET len == Len(arr)
        s   == IF start < 0 THEN Max(len + start, 0) ELSE Min(start, len)
        d   == Min(Max(deleteCount, 0), len - s)
    IN  SubSeq(arr, 1, s) \o items \o SubSeq(arr, s + d + 1, len)

Digits == <<"0", "1", "2", "3", "4", "5", "6", "7", "8", "9",
            "a", "b", "c", "d", "e", "f">>

RECURSIVE DigitsOf(_, _)
DigitsOf(n, radix) ==
    IF n < radix THEN <<Digits[n + 1]>>
    ELSE DigitsOf(n \div radix, radix) \o <<Digits[(n % radix) + 1]>>

\* Number.prototype.toString(radix) on integers
toString(n, radix) ==
    IF n < 0 THEN <<"-">> \o DigitsOf(0 - n, radix) ELSE DigitsOf(n, radix)

RECURSIVE repeat(_, _)
\* String.prototype.repeat(count), count >= 0
repeat(word, count) == IF count <= 0 THEN <<>> ELSE word \o repeat(word, count - 1)

\* String.prototype.slice(begin)
slice(str, begin) ==
    LET len  == Len(str)
        from == IF begin < 0 THEN Max(len + begin, 0) ELSE Min(begin, len)
    IN  SubSeq(str, from + 1, len)

(***************************************************************************)
(* ArrayActions                                                             *)
(***************************************************************************)

MaxLen   == 3     \* longest initial array
MaxCalls == 3     \* number of swap calls in one run
IdxOver  == 2     \* how far an index may lie beyond either end

Elems == {"a", "b", "c"}

swapUp(arr, index) ==
    IF index <= 0 THEN arr
    ELSE Splice(arr, index - 1, 2, <<At(arr, index), At(arr, index - 1)>>)

swapDown_offByOne(arr, index) ==
    IF index < 0 THEN arr
    ELSE IF Len(arr) <= index THEN arr
    ELSE Splice(arr, index, 2, <<At(arr, index + 1), At(arr, index)>>)

swapDown(arr, index) ==
    IF index < 0 THEN arr
    ELSE IF Len(arr) - 1 <= index THEN arr
    ELSE Splice(arr, index, 2, <<At(arr, index + 1), At(arr, index)>>)

Indices == (0 - IdxOver)..(MaxLen + IdxOver)

SwapInit ==
    /\ array \in UNION {[1..n -> Elems] : n \in 0..MaxLen}
    /\ initial = array
    /\ prev = array
    /\ lastOp = "none"
    /\ lastIdx = 0
    /\ calls = 0

CallSwapUp ==
    /\ calls < MaxCalls
    /\ \E index \in Indices :
          /\ array' = swapUp(array, index)
          /\ lastIdx' = index
    /\ prev' = array
    /\ lastOp' = "swapUp"
    /\ calls' = calls + 1
    /\ UNCHANGED <<initial, hashVars, padVars, pipeVars, sheetVars>>

CallSwapDown ==
    /\ calls < MaxCalls
    /\ \E index \in Indices :
          /\ array' = swapDown(array, index)
          /\ lastIdx' = index
    /\ prev' = array
    /\ lastOp' = "swapDown"
    /\ calls' = calls + 1
    /\ UNCHANGED <<initial, hashVars, padVars, pipeVars, sheetVars>>

(***************************************************************************)
(* createMD5HashKey                                                         *)
(***************************************************************************)

DIGEST_LEN == 16  \* bytes in an MD5 digest
FreeBytes  == 1   \* leading digest positions ranging over every signed byte

Byte == -128..127

NoText == "<none>"
Texts == {"", "a", "other"}

\* MD5("") = d41d8cd98f00b204e9800998ecf8427e as signed bytes
MD5_EMPTY == <<-44, 29, -116, -39, -113, 0, -78, 4, -23, -128, 9, -104, -20, -8, 66, 126>>
\* MD5("a") = 0cc175b9c0f1b6a831c399e269772661 as signed bytes
MD5_A == <<12, -63, 117, -71, -64, -15, -74, -88, 49, -61, -103, -30, 105, 119, 38, 97>>

\* digests with the leading FreeBytes positions arbitrary
FreeDigests ==
    {[k \in 1..DIGEST_LEN |-> IF k <= FreeBytes THEN f[k] ELSE base[k]] :
        f \in [1..FreeBytes -> Byte], base \in {MD5_EMPTY, MD5_A}}

\* Utilities.computeDigest(MD5, text, UTF_8): the values the primitive may return
computeDigest(t) ==
    IF t = "" THEN {MD5_EMPTY}
    ELSE IF t = "a" THEN {MD5_A}
    ELSE FreeDigests

byteToHex_noCorrection(byte) == toString(byte, 16)

\* the forEach callback: byte < 0 ? (byte += 256).toString(16) : byte.toString(16)
byteToHex(byte) == IF byte < 0 THEN toString(byte + 256, 16) ELSE toString(byte, 16)

RECURSIVE forEachByte(_, _)
\* md5_byte.forEach(byte => hash_key += ...), starting from the given hash_key
forEachByte(bytes, key) ==
    IF bytes = <<>> THEN key
    ELSE forEachByte(Tail(bytes), key \o byteToHex(Head(bytes)))

\* createMD5HashKey(text), given the digest the primitive returned for text
createMD5HashKey(bytes) == [md5_byte |-> bytes, hash_key |-> forEachByte(bytes, <<>>)]

NoKey == <<>>

\* the call's argument and the digest the primitive will return for it
HashInit ==
    /\ text \in Texts
    /\ md5_byte \in computeDigest(text)
    /\ hash_key = NoKey

CallCreateMD5HashKey ==
    /\ hash_key = NoKey
    /\ hash_key' = createMD5HashKey(md5_byte).hash_key
    /\ UNCHANGED <<text, md5_byte, swapVars, padVars, pipeVars, sheetVars>>

(***************************************************************************)
(* toZeroPadding / toWordPadding                                            *)
(***************************************************************************)

MaxDigit == 3     \* digit ranges over -MaxDigit..MaxDigit

Str(x) == [type |-> "string", val |-> x]
Num(n) == [type |-> "number", val |-> n]

\* the values of v: strings and numbers of several widths
PadValues ==
    {Str(<<>>), Str(<<"7">>), Str(<<"a", "b">>), Str(<<"x", "y", "z", "w">>),
     Str(<<"1", "2", "3", "4", "5">>)}
    \cup {Num(n) : n \in {0, 7, 42, 345, 12345, -5}}

PadDigits == (0 - MaxDigit)..MaxDigit

PadWords == {<<>>, <<"0">>, <<"*">>, <<"a", "b">>}

\* typeof v === 'number' ? v.toString() : v
textOf(val) == IF val.type = "number" THEN toString(val.val, 10) ELSE val.val

toWordPadding(val, digit, word) ==
    LET abs == IF digit < 0 THEN 0 - digit ELSE digit   \* const _
    IN  slice(repeat(word, abs) \o textOf(val), 0 - abs)

toZeroPadding(val, digit) ==
    LET abs == IF digit < 0 THEN 0 - digit ELSE digit   \* const _
    IN  slice(repeat(<<"0">>, abs) \o textOf(val), 0 - abs)

NoCall == [fn |-> "none"]

PadInit ==
    /\ padCall = NoCall
    /\ padResult = <<>>

CallToZeroPadding ==
    \E val \in PadValues, digit \in PadDigits :
        /\ padCall' = [fn |-> "toZeroPadding", v |-> val, digit |-> digit]
        /\ padResult' = toZeroPadding(val, digit)
        /\ UNCHANGED <<swapVars, hashVars, pipeVars, sheetVars>>

CallToWordPadding ==
    \E val \in PadValues, digit \in PadDigits, word \in PadWords :
        /\ padCall' = [fn |-> "toWordPadding", v |-> val, digit |-> digit, word |-> word]
        /\ padResult' = toWordPadding(val, digit, word)
        /\ UNCHANGED <<swapVars, hashVars, pipeVars, sheetVars>>

(***************************************************************************)
(* Pipe                                                                     *)
(***************************************************************************)

MaxTo  == 2       \* to() calls on one Pipe
MaxLog == 1       \* values written to the console

PipeIds == {1, 2}
StartValues == {0, 5}
Fcs == {"inc", "dbl", "neg"}

\* the callbacks handed to to(): x => x + 1, x => x * 2, x => -x
Apply(fc, x) ==
    CASE fc = "inc" -> x + 1
      [] fc = "dbl" -> x * 2
      [] fc = "neg" -> 0 - x

\* constructor(v) { this.v = v }, for each Pipe instance
PipeInit ==
    /\ v0 \in [PipeIds -> StartValues]
    /\ v = v0
    /\ applied = [p \in PipeIds |-> <<>>]
    /\ before = v0
    /\ pipeCall = [op |-> "new", this |-> 1]
    /\ ret = [kind |-> "none"]
    /\ sink = <<>>

log_resets(this) ==
    /\ Len(sink) < MaxLog
    /\ sink' = Append(sink, v[this])
    /\ ret' = [kind |-> "pipe", ref |-> this]
    /\ before' = v
    /\ pipeCall' = [op |-> "log", this |-> this]
    /\ v' = [v EXCEPT ![this] = v0[this]]
    /\ UNCHANGED <<v0, applied>>

\* log(): console.log(this.v); return this
log(this) ==
    /\ Len(sink) < MaxLog
    /\ sink' = Append(sink, v[this])
    /\ ret' = [kind |-> "pipe", ref |-> this]
    /\ before' = v
    /\ pipeCall' = [op |-> "log", this |-> this]
    /\ UNCHANGED <<v, v0, applied>>

\* to(fc): this.v = fc(this.v); return this
to(this, fc) ==
    /\ Len(applied[this]) < MaxTo
    /\ v' = [v EXCEPT ![this] = Apply(fc, v[this])]
    /\ applied' = [applied EXCEPT ![this] = Append(applied[this], fc)]
    /\ ret' = [kind |-> "pipe", ref |-> this]
    /\ before' = v
    /\ pipeCall' = [op |-> "to", this |-> this]
    /\ UNCHANGED <<v0, sink>>

\* exit(): return this.v
exit(this) ==
    /\ ret' = [kind |-> "value", val |-> v[this]]
    /\ before' = v
    /\ pipeCall' = [op |-> "exit", this |-> this]
    /\ UNCHANGED <<v, v0, applied, sink>>

CallLog ==
    /\ \E this \in PipeIds : log(this)
    /\ UNCHANGED <<swapVars, hashVars, padVars, sheetVars>>
CallTo ==
    /\ \E this \in PipeIds, fc \in Fcs : to(this, fc)
    /\ UNCHANGED <<swapVars, hashVars, padVars, sheetVars>>
CallExit ==
    /\ \E this \in PipeIds : exit(this)
    /\ UNCHANGED <<swapVars, hashVars, padVars, sheetVars>>

(***************************************************************************)
(* SpreadsheetLib.openSheet                                                 *)
(***************************************************************************)

SheetNames == {<<"A">>, <<"B">>, <<"A", "B">>}
SheetRefs  == {"sheet1", "sheet2"}
SheetIds   == {<<"i", "d", "1">>, <<"X">>}

\* the bound Spreadsheet handles: an id and the sheets found by name
Handles == [id : SheetIds, sheets : [SheetNames -> SheetRefs \cup {Null}]]

\* ss.getSheetByName(name): the sheet, or null
getSheetByName(h, sheetName) == h.sheets[sheetName]

\* ss.getId()
getId(h) == h.id

\* TypeGuard.isNull
isNull(x) == x = Null

\* `sheet "${sheetName}" <wa> Spreadsheet ${ss.getId()} <ni sonzai shimasen>`;
\* each kana of the fixed text is written as its reading between brackets
errorMessage(sheetName, id) ==
    <<"s", "h", "e", "e", "t", " ", "\"">> \o sheetName
    \o <<"\"", " ", "[wa]", " ", "S", "p", "r", "e", "a", "d", "s", "h", "e", "e", "t", " ">>
    \o id \o <<" ", "[ni]", "[son]", "[zai]", "[shi]", "[ma]", "[se]", "[n]">>

openSheet_neverThrows(h, sheetName) ==
    [kind |-> "return", value |-> [sheet |-> getSheetByName(h, sheetName)]]

openSheet(h, sheetName) ==
    LET sheet == getSheetByName(h, sheetName)
    IN  IF isNull(sheet)
        THEN [kind |-> "throw", message |-> errorMessage(sheetName, getId(h))]
        ELSE [kind |-> "return", value |-> [sheet |-> sheet]]

NoOutcome == [kind |-> "none"]

\* SpreadsheetLib(ss): the handle is bound, nothing has been opened
SheetInit ==
    /\ ss \in Handles
    /\ ss0 = ss
    /\ outcome = NoOutcome

CallOpenSheet ==
    \E sheetName \in SheetNames :
        /\ outcome' = [call |-> sheetName, result |-> openSheet(ss, sheetName)]
        /\ UNCHANGED <<ss, ss0, swapVars, hashVars, padVars, pipeVars>>

(***************************************************************************)
(* Properties of ArrayActions (checked under SpecSwap)                      *)
(***************************************************************************)

\* number of positions of seq holding e
Count(seq, e) == Cardinality({k \in 1..Len(seq) : seq[k] = e})

\* C1: swapUp(seq, i) returns seq unchanged when i <= 0; otherwise the
\* elements at positions i-1 and i are exchanged, every other position keeps
\* its element and the length is unchanged, for every integer i.
C1_SwapUpContract ==
    lastOp = "swapUp" =>
        LET n == Len(prev)
            i == lastIdx
        IN  /\ Len(array) = n
            /\ IF i <= 0 THEN array = prev
               ELSE /\ At(array, i - 1) = At(prev, i)
                    /\ At(array, i) = At(prev, i - 1)
                    /\ \A k \in (0..(n - 1)) \ {i - 1, i} : At(array, k) = At(prev, k)

\* C2: swapDown(seq, i) returns seq unchanged when i < 0 or i >= length-1;
\* otherwise the elements at positions i and i+1 are exchanged, every other
\* position keeps its element and the length is unchanged.
C2_SwapDownContract ==
    lastOp = "swapDown" =>
        LET n == Len(prev)
            i == lastIdx
        IN  /\ Len(array) = n
            /\ IF i < 0 \/ i >= n - 1 THEN array = prev
               ELSE /\ array[i + 1] = prev[i + 2]
                    /\ array[i + 2] = prev[i + 1]
                    /\ \A k \in (1..n) \ {i + 1, i + 2} : array[k] = prev[k]

\* a swapDown call inside the range has exchanged two different elements
C2_Witness ==
    /\ lastOp = "swapDown"
    /\ lastIdx >= 0 /\ lastIdx < Len(prev) - 1
    /\ prev[lastIdx + 1] # prev[lastIdx + 2]
    /\ array # prev

\* C3: on a sequence of length 0 or 1, swapUp and swapDown are no-ops for
\* every integer index.
C3_ShortSequenceNoOp ==
    (lastOp # "none" /\ Len(prev) <= 1) => array = prev

\* C10: after any sequence of swapUp / swapDown calls the sequence is a
\* permutation of its initial contents: same length, no element lost or
\* duplicated, no undefined element.
C10_PermutationOfInitial ==
    /\ Len(array) = Len(initial)
    /\ \A e \in Elems \cup {Undefined} : Count(array, e) = Count(initial, e)

(***************************************************************************)
(* Properties of createMD5HashKey (checked under SpecHash)                  *)
(***************************************************************************)

HexChars == {"0", "1", "2", "3", "4", "5", "6", "7", "8", "9", "a", "b", "c", "d", "e", "f"}

HexTable == <<"0", "1", "2", "3", "4", "5", "6", "7", "8", "9", "a", "b", "c", "d", "e", "f">>

\* the hexadecimal numeral of u in 0..255: one character below 16, else two
HexNumeral(u) ==
    IF u < 16 THEN <<HexTable[u + 1]>>
    ELSE <<HexTable[(u \div 16) + 1], HexTable[(u % 16) + 1]>>

Unsigned(byte) == IF byte < 0 THEN byte + 256 ELSE byte

RECURSIVE ExpectedKey(_, _)
\* the numerals of bytes[k..], unpadded, in byte order
ExpectedKey(bytes, k) ==
    IF k > Len(bytes) THEN <<>>
    ELSE HexNumeral(Unsigned(bytes[k])) \o ExpectedKey(bytes, k + 1)

\* C4: the key is the concatenation, in byte order, of each byte's unsigned
\* value in lowercase hexadecimal without padding; it holds only 0-9a-f and is
\* determined by the digest.
C4_KeyIsUnpaddedHex ==
    hash_key # NoKey =>
        /\ Len(md5_byte) = DIGEST_LEN
        /\ hash_key = ExpectedKey(md5_byte, 1)
        /\ \A k \in 1..Len(hash_key) : hash_key[k] \in HexChars

\* a key built from a digest with a negative first byte and a byte below 16
C4_Witness ==
    /\ hash_key # NoKey
    /\ md5_byte[1] < 0
    /\ \E k \in 1..DIGEST_LEN : md5_byte[k] >= 0 /\ md5_byte[k] < 16

\* C5: the key always has an even number of hex characters.
C5_KeyLengthEven ==
    hash_key # NoKey => Len(hash_key) % 2 = 0

(***************************************************************************)
(* Properties of the padding helpers (checked under SpecPad)                *)
(***************************************************************************)

Abs(n) == IF n < 0 THEN 0 - n ELSE n

\* C6: toZeroPadding(v, digit) has exactly abs(digit) characters: the last
\* abs(digit) characters of v's text left-padded with "0", for every integer
\* digit (positive, zero or negative).
C6_ZeroPaddingWidth ==
    padCall.fn = "toZeroPadding" =>
        LET a == Abs(padCall.digit)
            t == textOf(padCall.v)
        IN  /\ Len(padResult) = a
            /\ \A k \in 1..a :
                  padResult[k] = IF k <= a - Len(t) THEN "0" ELSE t[Len(t) - a + k]
            /\ padResult = toZeroPadding(padCall.v, Abs(padCall.digit))

\* C7: toWordPadding(v, digit, word) has exactly abs(digit) characters for
\* every word, the empty word included, and equals toZeroPadding(v, digit)
\* when word is "0".
C7_WordPaddingWidth ==
    padCall.fn = "toWordPadding" =>
        /\ Len(padResult) = Abs(padCall.digit)
        /\ padCall.word = <<"0">> => padResult = toZeroPadding(padCall.v, padCall.digit)

(***************************************************************************)
(* Properties of Pipe (checked under SpecPipe)                              *)
(***************************************************************************)

RECURSIVE Compose(_, _)
\* fn(...f2(f1(x))...) for fcs = <<f1, f2, ..., fn>>
Compose(fcs, x) ==
    IF fcs = <<>> THEN x
    ELSE Apply(fcs[Len(fcs)], Compose(SubSeq(fcs, 1, Len(fcs) - 1), x))

\* C8: exit() returns fn(...f1(v0)...) in call order; log() and exit() never
\* change the held value; to() and log() return the Pipe they were called on.
C8_PipeChain ==
    /\ pipeCall.op = "exit" =>
          /\ ret = [kind |-> "value",
                    val |-> Compose(applied[pipeCall.this], v0[pipeCall.this])]
          /\ v = before
    /\ pipeCall.op = "log" =>
          /\ v = before
          /\ ret = [kind |-> "pipe", ref |-> pipeCall.this]
    /\ pipeCall.op = "to" =>
          /\ ret = [kind |-> "pipe", ref |-> pipeCall.this]
          /\ \A p \in PipeIds \ {pipeCall.this} : v[p] = before[p]

\* Pipe(5).to(inc).log().to(dbl).exit() has returned 12
C8_Witness ==
    /\ pipeCall.op = "exit"
    /\ v0[pipeCall.this] = 5
    /\ applied[pipeCall.this] = <<"inc", "dbl">>
    /\ sink = <<6>>
    /\ ret = [kind |-> "value", val |-> 12]

(***************************************************************************)
(* Properties of SpreadsheetLib.openSheet (checked under SpecSheet)         *)
(***************************************************************************)

\* sub occurs in str as a run of consecutive characters
Contains(sub, str) ==
    \E k \in 0..(Len(str) - Len(sub)) : SubSeq(str, k + 1, k + Len(sub)) = sub

\* C9: when the lookup returns null openSheet raises an error whose message
\* contains the sheet name and the container id and returns no wrapper;
\* otherwise it raises nothing and returns a wrapper holding exactly that
\* sheet; the handle is not modified.
C9_OpenSheet ==
    outcome # NoOutcome =>
        LET r == outcome.result
            found == ss0.sheets[outcome.call]
        IN  /\ ss = ss0
            /\ IF found = Null
               THEN /\ r.kind = "throw"
                    /\ Contains(outcome.call, r.message)
                    /\ Contains(ss0.id, r.message)
               ELSE r = [kind |-> "return", value |-> [sheet |-> found]]

\* a missing sheet has been asked for beside one that exists
C9_Witness ==
    /\ outcome # NoOutcome
    /\ outcome.call = <<"A", "B">>
    /\ outcome.result.kind = "throw"
    /\ ss.sheets[<<"A">>] = "sheet1"

(***************************************************************************)
(* Sanity properties of the failures above: where each contract does hold   *)
(***************************************************************************)

SwapUpInRange == (lastOp = "swapUp" /\ lastIdx < Len(prev)) => C1_SwapUpContract
ShortInRange == (lastOp = "swapUp" /\ lastIdx < Len(prev)) => C3_ShortSequenceNoOp
PermutationInRange == (\A e \in 1..Len(array) : array[e] # Undefined) => C10_PermutationOfInitial
ZeroPaddingNonZero == padCall.fn = "toZeroPadding" /\ padCall.digit # 0 => C6_ZeroPaddingWidth
WordPaddingNonZero ==
    (padCall.fn = "toWordPadding" /\ padCall.digit # 0 /\ padCall.word # <<>>) => C7_WordPaddingWidth
KeyLengthParity ==
    hash_key # NoKey =>
        Len(hash_key) = 2 * DIGEST_LEN
            - Cardinality({k \in 1..DIGEST_LEN : Unsigned(md5_byte[k]) < 16})

(***************************************************************************)
(* Specifications: one per helper, the other helpers' state held still      *)
(***************************************************************************)

InitSwap ==
    /\ SwapInit
    /\ text = NoText /\ md5_byte = <<>> /\ hash_key = <<>>
    /\ padCall = NoCall /\ padResult = <<>>
    /\ v0 = [p \in PipeIds |-> 0] /\ v = v0 /\ before = v0
    /\ applied = [p \in PipeIds |-> <<>>]
    /\ pipeCall = [op |-> "new", this |-> 1]
    /\ ret = [kind |-> "none"] /\ sink = <<>>
    /\ ss = [id |-> <<"X">>, sheets |-> [n \in SheetNames |-> Null]]
    /\ ss0 = ss /\ outcome = NoOutcome

InitHash ==
    /\ HashInit
    /\ array = <<>> /\ initial = <<>> /\ prev = <<>>
    /\ lastOp = "none" /\ lastIdx = 0 /\ calls = 0
    /\ padCall = NoCall /\ padResult = <<>>
    /\ v0 = [p \in PipeIds |-> 0] /\ v = v0 /\ before = v0
    /\ applied = [p \in PipeIds |-> <<>>]
    /\ pipeCall = [op |-> "new", this |-> 1]
    /\ ret = [kind |-> "none"] /\ sink = <<>>
    /\ ss = [id |-> <<"X">>, sheets |-> [n \in SheetNames |-> Null]]
    /\ ss0 = ss /\ outcome = NoOutcome

InitPad ==
    /\ PadInit
    /\ array = <<>> /\ initial = <<>> /\ prev = <<>>
    /\ lastOp = "none" /\ lastIdx = 0 /\ calls = 0
    /\ text = NoText /\ md5_byte = <<>> /\ hash_key = <<>>
    /\ v0 = [p \in PipeIds |-> 0] /\ v = v0 /\ before = v0
    /\ applied = [p \in PipeIds |-> <<>>]
    /\ pipeCall = [op |-> "new", this |-> 1]
    /\ ret = [kind |-> "none"] /\ sink = <<>>
    /\ ss = [id |-> <<"X">>, sheets |-> [n \in SheetNames |-> Null]]
    /\ ss0 = ss /\ outcome = NoOutcome

InitPipe ==
    /\ PipeInit
    /\ array = <<>> /\ initial = <<>> /\ prev = <<>>
    /\ lastOp = "none" /\ lastIdx = 0 /\ calls = 0
    /\ text = NoText /\ md5_byte = <<>> /\ hash_key = <<>>
    /\ padCall = NoCall /\ padResult = <<>>
    /\ ss = [id |-> <<"X">>, sheets |-> [n \in SheetNames |-> Null]]
    /\ ss0 = ss /\ outcome = NoOutcome

InitSheet ==
    /\ SheetInit
    /\ array = <<>> /\ initial = <<>> /\ prev = <<>>
    /\ lastOp = "none" /\ lastIdx = 0 /\ calls = 0
    /\ text = NoText /\ md5_byte = <<>> /\ hash_key = <<>>
    /\ padCall = NoCall /\ padResult = <<>>
    /\ v0 = [p \in PipeIds |-> 0] /\ v = v0 /\ before = v0
    /\ applied = [p \in PipeIds |-> <<>>]
    /\ pipeCall = [op |-> "new", this |-> 1]
    /\ ret = [kind |-> "none"] /\ sink = <<>>

SpecSwap  == InitSwap /\ [][CallSwapUp \/ CallSwapDown]_vars
SpecHash  == InitHash /\ [][CallCreateMD5HashKey]_vars
SpecPad   == InitPad /\ [][CallToZeroPadding \/ CallToWordPadding]_vars
SpecPipe  == InitPipe /\ [][CallLog \/ CallTo \/ CallExit]_vars
SpecSheet == InitSheet /\ [][CallOpenSheet]_vars

====
